---- MODULE Spec2Model ----
(***************************************************************************)
(* Model of edk2toolext/invocables/edk2_pr_eval.py: the class              *)
(* DiffToPackageResolver (get_packages_to_build, _is_public_file,          *)
(* _parse_dec_for_package, _does_pkg_depend_on_package,                    *)
(* _walk_dir_for_filetypes) and PrEvalSettingsManager.FilterPackagesToTest.*)
(*                                                                         *)
(* A Python string is a sequence of symbols (a symbol is a path separator, *)
(* a name or an extension), so that replace, lower, endswith, startswith,  *)
(* `in` and + are computed on the text as the code computes them.          *)
(***************************************************************************)
EXTENDS Integers, Sequences, FiniteSets, TLC

VARIABLES
    parsed_dec_cache,        \* self.parsed_dec_cache: package -> dec or None
    parse_calls,             \* history: package -> calls of _parse_dec_for_package (this instance)
    pc,                      \* position inside get_packages_to_build, or "idle"
    files,                   \* argument files
    possible_packages,       \* argument possible_packages
    after,                   \* local after: what plat_func returned
    idx,                     \* position of the running for loop
    remaining_packages,      \* local remaining_packages
    packages_to_build,       \* local packages_to_build (dict: package -> reason)
    public_package_changes,  \* local public_package_changes
    snap,                    \* rest of the slice remaining_packages[:] being iterated
    ret,                     \* what the call returned (or the exception that left it)
    is_public,               \* last _is_public_file call: [filepath, ret], or None
    fresh,                   \* history: the running call started with an empty cache
    prev                     \* history: [after, ret] of the run being repeated, or None

vars == <<parsed_dec_cache, parse_calls, pc, files, possible_packages, after, idx,
          remaining_packages, packages_to_build, public_package_changes, snap,
          ret, is_public, fresh, prev>>

(***************************************************************************)
(* Bounds of the model.                                                    *)
(***************************************************************************)
MaxFiles == 2        \* longest changed-file list
MaxAfter == 2        \* longest list returned by a caller-supplied filter

(***************************************************************************)
(* Python values.                                                          *)
(***************************************************************************)
EmptyDict == << >>                 \* {} (a function with an empty domain)
NoneStr == <<"<None>">>            \* None where a str is expected
LookupFailed == <<"<Exception>">>  \* GetContainingPackage left by an exception
NoneDec == [found |-> FALSE, path |-> << >>, IncludePaths |-> << >>]  \* None where a dec is expected

Range(s) == {s[i] : i \in DOMAIN s}

\* str.startswith / str.endswith / `needle in hay`
StartsWith(s, p) == Len(p) <= Len(s) /\ SubSeq(s, 1, Len(p)) = p
EndsWith(s, p) == Len(p) <= Len(s) /\ SubSeq(s, Len(s) - Len(p) + 1, Len(s)) = p
Contains(hay, needle) ==
    \E i \in 0..(Len(hay) - Len(needle)) : SubSeq(hay, i + 1, i + Len(needle)) = needle

\* str.replace("\\", "/")
ReplaceBackslash(s) == [i \in DOMAIN s |-> IF s[i] = "\\" THEN "/" ELSE s[i]]

\* str.lower(), symbol by symbol
LowerSym(c) ==
    CASE c = "PkgA" -> "pkga" [] c = "PkgB" -> "pkgb" [] c = "PkgC" -> "pkgc"
      [] c = "PkgD" -> "pkgd" [] c = "Include" -> "include" [] c = "Library" -> "library"
      [] c = "Old" -> "old" [] c = "Foo" -> "foo" [] c = ".DEC" -> ".dec"
      [] c = ".INF" -> ".inf" [] OTHER -> c
Lower(s) == [i \in DOMAIN s |-> LowerSym(s[i])]

\* list.remove(x): drops the first occurrence (the code calls it on members only)
RECURSIVE ListRemove(_, _)
ListRemove(s, x) ==
    IF s = << >> THEN << >>
    ELSE IF Head(s) = x THEN Tail(s)
    ELSE <<Head(s)>> \o ListRemove(Tail(s), x)

\* dict[k] = v
DictSet(d, k, v) == [x \in (DOMAIN d) \cup {k} |-> IF x = k THEN v ELSE d[x]]

\* the orders list(set(s)) can come out in: the iteration order of a set of
\* str is not specified (it follows the per-process string hash)
ListOfSet(s) ==
    LET S == Range(s) IN
    {q \in [1..Cardinality(S) -> S] : \A i, j \in 1..Cardinality(S) : q[i] = q[j] => i = j}

(***************************************************************************)
(* The workspace on disk (edk2_path_obj.WorkspacePath == /ws).             *)
(***************************************************************************)
IsSep(c) == c = "/" \/ c = "\\"
WorkspacePath == <<"/", "ws">>

PkgA == <<"PkgA">>
PkgB == <<"PkgB">>
PkgC == <<"PkgC">>
PkgD == <<"PkgD">>
Packages == {PkgA, PkgB, PkgC, PkgD}

Abs(rel) == WorkspacePath \o <<"/">> \o rel

\* every file of the workspace, workspace relative
DiskFiles ==
    { <<".gitignore">>,
      <<"PkgA", "/", "PkgA", ".dec">>, <<"PkgA", "/", "Old", ".DEC">>,
      <<"PkgA", "/", "Include", "/", "a", ".h">>,
      <<"PkgA", "/", "Library", "/", "Foo", ".c">>,
      <<"PkgA", "/", "Library", "/", "Foo", ".inf">>,
      <<"PkgB", "/", "PkgB", ".dec">>,
      <<"PkgB", "/", "Include", "/", "b", ".h">>,
      <<"PkgB", "/", "b", ".inf">>,
      <<"PkgC", "/", "c", ".c">>, <<"PkgC", "/", "c", ".INF">>,
      <<"PkgD", "/", "PkgD", ".dec">>, <<"PkgD", "/", "d", ".inf">> }

\* DecParser().ParseFile(wsr_dec_path).IncludePaths
DecIncludePaths(wsr) ==
    CASE wsr = <<"PkgA", "/", "PkgA", ".dec">> -> << <<"Include">> >>
      [] wsr = <<"PkgA", "/", "Old", ".DEC">> -> << <<"Include">> >>
      [] wsr = <<"PkgB", "/", "PkgB", ".dec">> -> << <<"Include">> >>
      [] OTHER -> << >>

\* InfParser().ParseFile(f).PackagesUsed
InfPackagesUsed(f) ==
    CASE f = Abs(<<"PkgA", "/", "Library", "/", "Foo", ".inf">>)
             -> << <<"PkgA", "/", "PkgA", ".dec">> >>
      [] f = Abs(<<"PkgB", "/", "b", ".inf">>)
             -> << <<"PkgA", "/", "PkgA", ".dec">>, <<"PkgB", "/", "PkgB", ".dec">> >>
      [] f = Abs(<<"PkgC", "/", "c", ".INF">>)
             -> << <<"PkgB", "/", "PkgB", ".dec">>, <<"PkgA", "/", "PkgA", ".dec">> >>
      [] f = Abs(<<"PkgD", "/", "d", ".inf">>)
             -> << <<"PkgB", "/", "PkgB", ".dec">> >>
      [] OTHER -> << >>

(***************************************************************************)
(* edk2_path_obj (edk2toollib path_utilities.Edk2Path), by its contract:   *)
(* absolute <-> workspace-relative translation and package containment.    *)
(***************************************************************************)
UnderWorkspace(path) ==
    /\ Len(path) > Len(WorkspacePath) + 1
    /\ ReplaceBackslash(SubSeq(path, 1, Len(WorkspacePath))) = WorkspacePath
    /\ IsSep(path[Len(WorkspacePath) + 1])

\* GetEdk2RelativePathFromAbsolutePath: edk2 (forward slash) relative path, or None
GetEdk2RelativePathFromAbsolutePath(path) ==
    IF UnderWorkspace(path)
    THEN ReplaceBackslash(SubSeq(path, Len(WorkspacePath) + 2, Len(path)))
    ELSE NoneStr

\* GetAbsolutePathOnThisSytemFromEdk2RelativePath
GetAbsolutePathOnThisSytemFromEdk2RelativePath(rel) ==
    IF \E f \in DiskFiles : StartsWith(f, rel \o <<"/">>) THEN Abs(rel) ELSE NoneStr

\* GetContainingPackage: the package directory the file lies under, or an
\* exception for a file outside every package
GetContainingPackage(path) ==
    LET rel == GetEdk2RelativePathFromAbsolutePath(path) IN
    IF rel # NoneStr /\ \E i \in DOMAIN rel : rel[i] = "/"
    THEN LET first == CHOOSE i \in DOMAIN rel :
                        rel[i] = "/" /\ \A j \in 1..(i - 1) : rel[j] # "/"
         IN  IF SubSeq(rel, 1, first - 1) \in Packages
             THEN SubSeq(rel, 1, first - 1) ELSE LookupFailed
    ELSE LookupFailed

\* os.path.abspath of an absolute path: normpath, which drops "." components
RECURSIVE abspath(_)
abspath(path) ==
    IF Len(path) < 2 THEN path
    ELSE IF IsSep(path[1]) /\ path[2] = "." /\ (Len(path) = 2 \/ IsSep(path[3]))
         THEN abspath(SubSeq(path, 3, Len(path)))
         ELSE <<path[1]>> \o abspath(Tail(path))

\* os.path.isdir / os.listdir / os.path.isfile on the workspace
isdir(path) == \E f \in DiskFiles : StartsWith(Abs(f), path \o <<"/">>)
isfile(path) == \E f \in DiskFiles : Abs(f) = path
listdir(path) ==
    {SubSeq(Abs(f), Len(path) + 2, Len(Abs(f))) : f \in
        {g \in DiskFiles : /\ StartsWith(Abs(g), path \o <<"/">>)
                           /\ \A i \in (Len(path) + 2)..Len(Abs(g)) : Abs(g)[i] # "/"}}

(***************************************************************************)
(* PrEvalSettingsManager and the pure parts of DiffToPackageResolver.      *)
(***************************************************************************)
\* PrEvalSettingsManager.FilterPackagesToTest: the default implementation
FilterPackagesToTest(changedFilesList, potentialPackagesList) == potentialPackagesList

\* _walk_dir_for_filetypes(extensionlist, directory), ignorelist None; the
\* directory is an existing absolute directory (else it raises ValueError)
_walk_dir_for_filetypes(extensionlist, directory) ==
    {Abs(f) : f \in {g \in DiskFiles :
        /\ StartsWith(Abs(g), directory \o <<"/">>)
        /\ \E Extension \in Range(extensionlist) : EndsWith(Lower(g), Lower(Extension))}}

\* _does_pkg_depend_on_package(package_to_eval, support_package)
_does_pkg_depend_on_package(package_to_eval, support_package) ==
    LET abs_pkg_path == GetAbsolutePathOnThisSytemFromEdk2RelativePath(package_to_eval)
        inf_files == _walk_dir_for_filetypes(<< <<".inf">> >>, abs_pkg_path)
    IN  \E f \in inf_files : \E p \in Range(InfPackagesUsed(f)) : StartsWith(p, support_package)

\* _parse_dec_for_package(path_to_package): every dec it can return. The loop
\* keeps the last entry of os.listdir that ends in .dec, and os.listdir
\* returns the entries in arbitrary order.
_parse_dec_for_package(path_to_package) ==
    IF ~isdir(path_to_package) THEN {NoneDec}
    ELSE LET decs == {entry \in listdir(path_to_package) : EndsWith(Lower(entry), <<".dec">>)} IN
         IF decs = {} THEN {NoneDec}
         ELSE { LET path == path_to_package \o <<"/">> \o entry
                    wsr_dec_path == GetEdk2RelativePathFromAbsolutePath(path)
                IN  IF wsr_dec_path = << >> \/ ~isfile(path) THEN NoneDec
                    ELSE [found |-> TRUE, path |-> wsr_dec_path,
                          IncludePaths |-> DecIncludePaths(wsr_dec_path)]
                : entry \in decs }

\* one more call of _parse_dec_for_package for pkg (counted up to two)
CountCall(calls, pkg) == [calls EXCEPT ![pkg] = IF @ < 2 THEN @ + 1 ELSE @]

\* variant of DecForPackage: line 309 left out, the cache is never written
DecForPackage_NotStored(pkg, cache, calls) ==
    { [dec |-> d, cache |-> cache, calls |-> CountCall(calls, pkg)]
      : d \in _parse_dec_for_package(GetAbsolutePathOnThisSytemFromEdk2RelativePath(pkg)) }
\* lines 303-309 of _is_public_file: the dec of pkg, from the cache or parsed
\* and stored; every [dec, cache, calls] the lookup can end with
DecForPackage(pkg, cache, calls) ==
    IF pkg \in DOMAIN cache
    THEN {[dec |-> cache[pkg], cache |-> cache, calls |-> calls]}
    ELSE { [dec |-> d, cache |-> DictSet(cache, pkg, d), calls |-> CountCall(calls, pkg)]
           : d \in _parse_dec_for_package(GetAbsolutePathOnThisSytemFromEdk2RelativePath(pkg)) }

\* lines 311-329 of _is_public_file: the answer for filepath once dec is known
IsPublicGivenDec(filepath, pkg, dec) ==
    IF ~dec.found THEN FALSE
    ELSE LET fp == ReplaceBackslash(filepath) IN
         IF \E includepath \in Range(dec.IncludePaths) :
                Contains(fp, pkg \o <<"/">> \o includepath \o <<"/">>)
         THEN TRUE
         ELSE EndsWith(Lower(filepath), <<".dec">>)

\* variant of _is_public_file: the last line returns True
_is_public_file_AlwaysTrue(filepath, cache, calls) ==
    LET pkg == GetContainingPackage(filepath) IN
    IF pkg = LookupFailed THEN {[ret |-> FALSE, cache |-> cache, calls |-> calls]}
    ELSE { [ret |-> TRUE, cache |-> o.cache, calls |-> o.calls]
           : o \in DecForPackage(pkg, cache, calls) }
\* _is_public_file(filepath): every [ret, cache, calls] the call can end with
_is_public_file(filepath, cache, calls) ==
    LET pkg == GetContainingPackage(filepath) IN
    IF pkg = LookupFailed THEN {[ret |-> FALSE, cache |-> cache, calls |-> calls]}
    ELSE { [ret |-> IsPublicGivenDec(filepath, pkg, o.dec), cache |-> o.cache, calls |-> o.calls]
           : o \in DecForPackage(pkg, cache, calls) }

(***************************************************************************)
(* The inputs of a call.                                                   *)
(***************************************************************************)
\* what git diff --name-only can list (each path once, in path order),
\* joined to the working directory
ChangeSet ==
    << Abs(<<".gitignore">>),
       Abs(<<"PkgA", "/", "Include", "/", "a", ".h">>),
       Abs(<<"PkgA", "/", "Library", "/", "Foo", ".c">>),
       Abs(<<"PkgA", "/", "Old", ".DEC">>),
       Abs(<<"PkgA", "/", "PkgA", ".dec">>),
       <<"\\", "ws", "\\", "PkgB", "\\", "Include", "\\", "b", ".h">>,
       Abs(<<"PkgC", "/", "c", ".c">>) >>

FileLists ==
    UNION { { [i \in 1..n |-> ChangeSet[q[i]]] :
              q \in {r \in [1..n -> DOMAIN ChangeSet] : \A i, j \in 1..n : i < j => r[i] < r[j]} }
            : n \in 0..MaxFiles }

\* requested_package_list: the packages the caller asks about (PkgA is only
\* depended on), in any order, no package twice. Each is a directory of the
\* workspace: for one that is not, _walk_dir_for_filetypes raises ValueError
\* and the call ends in Policy 3.
RequestedPackages == {PkgB, PkgC, PkgD}
CandidateLists ==
    UNION { {q \in [1..n -> RequestedPackages] : \A i, j \in 1..n : q[i] = q[j] => i = j}
            : n \in 0..Cardinality(RequestedPackages) }

\* what a caller-supplied FilterPackagesToTest can return: any list, also
\* with a package twice or a package it was not given
FilterResults == UNION { [1..n -> RequestedPackages] : n \in 0..MaxAfter }

(***************************************************************************)
(* The resolver as a state machine.                                        *)
(***************************************************************************)
Policy1Reason == [policy |-> 1, on |-> << >>]  \* "Policy 1 - Platform Function - Filter Packages"
Policy2Reason == [policy |-> 2, on |-> << >>]  \* "Policy 2 - Build any package that has changed"
Policy3Reason(a) == [policy |-> 3, on |-> a]   \* f"Policy 3 - Package depends on {a}"

NoReturn == [kind |-> "none", value |-> << >>]
NoCall == [called |-> FALSE, filepath |-> << >>, ret |-> FALSE]
NoPrev == [set |-> FALSE, after |-> << >>, ret |-> NoReturn]
NoCalls == [p \in Packages |-> 0]

InCall == pc \in {"plat_func", "policy1", "policy2", "policy3_scan", "policy3_dedup", "policy3_deps"}

\* DiffToPackageResolver.__init__
Init ==
    /\ parsed_dec_cache = EmptyDict
    /\ parse_calls = NoCalls
    /\ pc = "idle"
    /\ files = << >>
    /\ possible_packages = << >>
    /\ after = << >>
    /\ idx = 0
    /\ remaining_packages = << >>
    /\ packages_to_build = EmptyDict
    /\ public_package_changes = << >>
    /\ snap = << >>
    /\ ret = NoReturn
    /\ is_public = NoCall
    /\ fresh = FALSE
    /\ prev = NoPrev

\* a new DiffToPackageResolver(PathObj) replaces the one in use (Go builds one per run)
NewResolver ==
    /\ pc = "idle"
    /\ parsed_dec_cache # EmptyDict
    /\ parsed_dec_cache' = EmptyDict
    /\ parse_calls' = NoCalls
    /\ is_public' = NoCall
    /\ UNCHANGED <<pc, files, possible_packages, after, idx, remaining_packages,
                   packages_to_build, public_package_changes, snap, ret, fresh, prev>>

\* lines 174-179: entry of get_packages_to_build(files, possible_packages, plat_func)
Enter(f, pp) ==
    /\ files' = f
    /\ possible_packages' = pp
    /\ remaining_packages' = pp
    /\ packages_to_build' = EmptyDict
    /\ after' = << >>
    /\ idx' = 0
    /\ public_package_changes' = << >>
    /\ snap' = << >>
    /\ ret' = NoReturn
    /\ is_public' = NoCall
    /\ pc' = "plat_func"

Call ==
    /\ pc = "idle"
    /\ \E f \in FileLists, pp \in CandidateLists : Enter(f, pp)
    /\ fresh' = (parsed_dec_cache = EmptyDict)
    /\ UNCHANGED <<parsed_dec_cache, parse_calls, prev>>

\* line 184: after = plat_func(edk2_relative_files, remaining_packages.copy()).
\* plat_func is the default FilterPackagesToTest or any caller-supplied
\* function; in a repeated run it is the same function on the same arguments.
PlatFunc ==
    /\ pc = "plat_func"
    /\ LET edk2_relative_files ==
               [i \in DOMAIN files |-> GetEdk2RelativePathFromAbsolutePath(files[i])]
       IN  \E r \in FilterResults \cup {FilterPackagesToTest(edk2_relative_files, remaining_packages)} :
               /\ prev.set => r = prev.after
               /\ after' = r
    /\ idx' = 1
    /\ pc' = "policy1"
    /\ UNCHANGED <<parsed_dec_cache, parse_calls, files, possible_packages, remaining_packages,
                   packages_to_build, public_package_changes, snap, ret, is_public, fresh, prev>>

\* variant of PlatFuncAllowed: the check of line 186 left out
PlatFuncAllowed_Unchecked(a, remaining) == TRUE
\* line 186: the package plat_func returned is one it was given and not yet taken
PlatFuncAllowed(a, remaining) == a \in Range(remaining)

\* variant of Policy1Assign: line 188 left out
Policy1Assign_Dropped(to_build, a) == to_build
\* line 188: packages_to_build[a] = "Policy 1 - ..."
Policy1Assign(to_build, a) == DictSet(to_build, a, Policy1Reason)

\* lines 185-189: one iteration of `for a in after`
Policy1 ==
    /\ pc = "policy1"
    /\ IF idx > Len(after)
       THEN /\ pc' = "policy2"
            /\ idx' = 1
            /\ UNCHANGED <<packages_to_build, remaining_packages, ret>>
       ELSE LET a == after[idx] IN
            IF ~PlatFuncAllowed(a, remaining_packages)
            THEN /\ pc' = "raised"
                 /\ ret' = [kind |-> "ValueError", value |-> a]
                 /\ UNCHANGED <<packages_to_build, remaining_packages, idx>>
            ELSE /\ packages_to_build' = Policy1Assign(packages_to_build, a)
                 /\ remaining_packages' = ListRemove(remaining_packages, a)
                 /\ idx' = idx + 1
                 /\ UNCHANGED <<pc, ret>>
    /\ UNCHANGED <<parsed_dec_cache, parse_calls, files, possible_packages, after,
                   public_package_changes, snap, is_public, fresh, prev>>

\* variant of ExceptContinue: the exception is not caught
ExceptContinue_Reraise == idx' = idx /\ pc' = "raised"
\* lines 198-201 and 220-223: except Exception: log, then continue
ExceptContinue == idx' = idx + 1 /\ pc' = pc

\* variant of Policy2Selects: the test asks possible_packages, not what is left of it
Policy2Selects_AnyCandidate(pkg, to_build, remaining) == pkg \in Range(possible_packages)
\* line 203: the test of Policy 2
Policy2Selects(pkg, to_build, remaining) ==
    pkg \notin DOMAIN to_build /\ pkg \in Range(remaining)

\* lines 194-205: one iteration of the first `for f in files`
Policy2 ==
    /\ pc = "policy2"
    /\ IF idx > Len(files)
       THEN /\ pc' = "policy3_scan"
            /\ idx' = 1
            /\ UNCHANGED <<packages_to_build, remaining_packages>>
       ELSE LET pkg == GetContainingPackage(abspath(files[idx])) IN
            IF pkg = LookupFailed
            THEN /\ ExceptContinue
                 /\ UNCHANGED <<packages_to_build, remaining_packages>>
            ELSE /\ idx' = idx + 1
                 /\ pc' = pc
                 /\ IF Policy2Selects(pkg, packages_to_build, remaining_packages)
                    THEN /\ packages_to_build' = DictSet(packages_to_build, pkg, Policy2Reason)
                         /\ remaining_packages' = ListRemove(remaining_packages, pkg)
                    ELSE UNCHANGED <<packages_to_build, remaining_packages>>
    /\ UNCHANGED <<parsed_dec_cache, parse_calls, files, possible_packages, after,
                   public_package_changes, snap, ret, is_public, fresh, prev>>

\* lines 216-226: one iteration of the second `for f in files`
Policy3Scan ==
    /\ pc = "policy3_scan"
    /\ IF idx > Len(files)
       THEN /\ pc' = "policy3_dedup"
            /\ UNCHANGED <<idx, public_package_changes, parsed_dec_cache, parse_calls, is_public>>
       ELSE LET f == files[idx]
                pkg == GetContainingPackage(f)
            IN  IF pkg = LookupFailed
                THEN /\ ExceptContinue
                     /\ UNCHANGED <<public_package_changes, parsed_dec_cache, parse_calls, is_public>>
                ELSE \E o \in _is_public_file(f, parsed_dec_cache, parse_calls) :
                            /\ idx' = idx + 1
                            /\ pc' = pc
                            /\ parsed_dec_cache' = o.cache
                            /\ parse_calls' = o.calls
                            /\ is_public' = [called |-> TRUE, filepath |-> f, ret |-> o.ret]
                            /\ public_package_changes' =
                                   IF o.ret THEN Append(public_package_changes, pkg)
                                   ELSE public_package_changes
    /\ UNCHANGED <<files, possible_packages, after, remaining_packages, packages_to_build,
                   snap, ret, fresh, prev>>

\* line 228: public_package_changes = list(set(public_package_changes)),
\* and entry of the loop of line 233
Policy3Dedup ==
    /\ pc = "policy3_dedup"
    /\ public_package_changes' \in ListOfSet(public_package_changes)
    /\ idx' = 1
    /\ snap' = remaining_packages
    /\ is_public' = NoCall
    /\ pc' = "policy3_deps"
    /\ UNCHANGED <<parsed_dec_cache, parse_calls, files, possible_packages, after,
                   remaining_packages, packages_to_build, ret, fresh, prev>>

\* variant of NextOfSlice: the loop runs over remaining_packages itself, so
\* removing p makes the iteration skip the package after it
NextOfSlice_NoCopy(rest, removed) ==
    IF removed /\ Len(rest) >= 2 THEN Tail(Tail(rest)) ELSE Tail(rest)
\* line 234: the loop runs over the slice remaining_packages[:], so removing
\* p from remaining_packages does not move the iteration
NextOfSlice(rest, removed) == Tail(rest)

\* lines 233-239: one iteration of the inner loop `for p in remaining_packages[:]`
\* (snap is what is left of the slice), the step to the next a, or the return
Policy3Deps ==
    /\ pc = "policy3_deps"
    /\ IF idx > Len(public_package_changes)
       THEN /\ pc' = "done"
            /\ ret' = [kind |-> "dict", value |-> packages_to_build]
            /\ UNCHANGED <<idx, snap, packages_to_build, remaining_packages>>
       ELSE IF snap = << >>
       THEN /\ idx' = idx + 1
            /\ snap' = remaining_packages
            /\ UNCHANGED <<pc, ret, packages_to_build, remaining_packages>>
       ELSE LET a == public_package_changes[idx]
                p == Head(snap)
            IN  /\ snap' = NextOfSlice(snap, _does_pkg_depend_on_package(p, a))
                /\ IF _does_pkg_depend_on_package(p, a)
                   THEN /\ packages_to_build' = DictSet(packages_to_build, p, Policy3Reason(a))
                        /\ remaining_packages' = ListRemove(remaining_packages, p)
                   ELSE UNCHANGED <<packages_to_build, remaining_packages>>
                /\ UNCHANGED <<pc, ret, idx>>
    /\ UNCHANGED <<parsed_dec_cache, parse_calls, files, possible_packages, after,
                   public_package_changes, is_public, fresh, prev>>

\* the caller takes the mapping (or the exception) and the frame is gone
Return ==
    /\ pc \in {"done", "raised"}
    /\ pc' = "idle"
    /\ files' = << >>
    /\ possible_packages' = << >>
    /\ after' = << >>
    /\ idx' = 0
    /\ remaining_packages' = << >>
    /\ packages_to_build' = EmptyDict
    /\ public_package_changes' = << >>
    /\ snap' = << >>
    /\ ret' = NoReturn
    /\ fresh' = FALSE
    /\ prev' = NoPrev
    /\ UNCHANGED <<parsed_dec_cache, parse_calls, is_public>>

\* Edk2PrEval.Go run once more on the same change set and the same requested
\* packages: a new resolver (line 89), and the same call (line 92)
RunAgain ==
    /\ pc = "done"
    /\ fresh
    /\ ~prev.set
    /\ prev' = [set |-> TRUE, after |-> after, ret |-> ret]
    /\ parsed_dec_cache' = EmptyDict
    /\ parse_calls' = NoCalls
    /\ Enter(files, possible_packages)
    /\ UNCHANGED fresh

\* _is_public_file(filepath) called on its own
IsPublicFile ==
    /\ pc = "idle"
    /\ \E f \in Range(ChangeSet) : \E o \in _is_public_file(f, parsed_dec_cache, parse_calls) :
           /\ parsed_dec_cache' = o.cache
           /\ parse_calls' = o.calls
           /\ is_public' = [called |-> TRUE, filepath |-> f, ret |-> o.ret]
    /\ UNCHANGED <<pc, files, possible_packages, after, idx, remaining_packages,
                   packages_to_build, public_package_changes, snap, ret, fresh, prev>>

Next ==
    \/ NewResolver
    \/ Call
    \/ PlatFunc
    \/ Policy1
    \/ Policy2
    \/ Policy3Scan
    \/ Policy3Dedup
    \/ Policy3Deps
    \/ Return
    \/ RunAgain
    \/ IsPublicFile

Spec == Init /\ [][Next]_vars

(***************************************************************************)
(* What the claims speak of.                                               *)
(***************************************************************************)
Candidates == Range(possible_packages)
Returned == pc = "done" /\ ret.kind = "dict"

\* the three ways a package can be selected
SelectedByFilter(p) == p \in Range(after)
ContainsChangedFile(p) == \E i \in DOMAIN files : GetContainingPackage(files[i]) = p
\* packages with a changed file that is public by the manifest in the cache
PublicSurfaceChanged ==
    {a \in Packages : \E i \in DOMAIN files :
        /\ GetContainingPackage(files[i]) = a
        /\ a \in DOMAIN parsed_dec_cache
        /\ IsPublicGivenDec(files[i], a, parsed_dec_cache[a])}
DependsOnPublicChange(p) ==
    \E a \in PublicSurfaceChanged : _does_pkg_depend_on_package(p, a)

\* the filter broke its contract: it returned a package it was not given
FilterReturnedStranger == \E i \in DOMAIN after : after[i] \notin Candidates

\* C1 (as stated): whenever get_packages_to_build returns for an empty
\* changed-file list, the mapping it returns is empty.
C1_EmptyFilesEmptyMapping ==
    (Returned /\ files = << >>) => DOMAIN ret.value = {}

\* C1 (amended): whenever get_packages_to_build returns for an empty
\* changed-file list, the mapping holds exactly the packages the filter
\* returned, each with the Policy 1 reason (so it is empty only when the
\* filter returned nothing; the default filter returns every candidate).
C1_EmptyFilesOnlyFilter ==
    (Returned /\ files = << >>) =>
        /\ DOMAIN ret.value = Range(after)
        /\ \A p \in DOMAIN ret.value : ret.value[p] = Policy1Reason

C1_Witness ==
    /\ Returned /\ files = << >>
    /\ after = possible_packages /\ Len(possible_packages) >= 2
    /\ DOMAIN ret.value = Candidates

\* C2: once the filter has returned a package outside the candidate list, the
\* call is left by ValueError with no mapping returned; it never reaches
\* Policy 2, Policy 3 or the return.
C2_StrangerRaises ==
    (FilterReturnedStranger /\ pc \in {"policy2", "policy3_scan", "policy3_dedup",
                                       "policy3_deps", "done", "raised"})
        => (pc = "raised" /\ ret.kind = "ValueError")

C2_Witness ==
    /\ pc = "raised" /\ ret.kind = "ValueError"
    /\ Len(after) = 2 /\ after[1] \in Candidates /\ after[2] \notin Candidates
    /\ after[1] \in DOMAIN packages_to_build

\* C3: in the returned mapping every package carries the reason of the
\* lowest-numbered policy that selects it: Policy 1 iff the filter returned
\* it, Policy 2 iff not that but it contains a changed file, Policy 3 iff
\* neither but it depends on a package whose public surface changed.
C3_PolicyPrecedence ==
    Returned => \A p \in DOMAIN ret.value :
        /\ ret.value[p].policy = 1 <=> SelectedByFilter(p)
        /\ ret.value[p].policy = 2 <=> (~SelectedByFilter(p) /\ ContainsChangedFile(p))
        /\ ret.value[p].policy = 3 <=>
               (~SelectedByFilter(p) /\ ~ContainsChangedFile(p) /\ DependsOnPublicChange(p))

C3_Witness ==
    /\ Returned
    /\ \E p \in DOMAIN ret.value :
           SelectedByFilter(p) /\ ContainsChangedFile(p) /\ ret.value[p] = Policy1Reason
    /\ \E p \in DOMAIN ret.value :
           /\ ~SelectedByFilter(p) /\ ContainsChangedFile(p) /\ DependsOnPublicChange(p)
           /\ ret.value[p] = Policy2Reason

\* remaining_packages and packages_to_build split the candidates
Partition ==
    /\ Range(remaining_packages) \cap DOMAIN packages_to_build = {}
    /\ Range(remaining_packages) \cup DOMAIN packages_to_build = Candidates

\* C4: at every step of a call the candidates are split between
\* remaining_packages and packages_to_build; a step never changes the reason
\* a package already has, never puts a package back into remaining_packages,
\* and gives a reason only to a package it takes out of remaining_packages.
C4_FirstMatchWins ==
    [][ /\ (pc' \notin {"idle"}) => Partition'
        /\ InCall =>
             /\ \A p \in DOMAIN packages_to_build :
                    p \in DOMAIN packages_to_build' /\ packages_to_build'[p] = packages_to_build[p]
             /\ Range(remaining_packages') \subseteq Range(remaining_packages)
             /\ \A p \in DOMAIN packages_to_build' \ DOMAIN packages_to_build :
                    p \in Range(remaining_packages) /\ p \notin Range(remaining_packages')
      ]_vars

C4_Witness ==
    /\ Returned
    /\ remaining_packages # << >>
    /\ \E p, q \in DOMAIN ret.value : ret.value[p].policy = 1 /\ ret.value[q].policy = 3

\* C5: in the returned mapping every candidate that neither the filter
\* returned nor contains a changed file, but that depends on a package whose
\* public surface changed, is present with a Policy 3 reason naming such a
\* package.
C5_TransitiveInclusion ==
    Returned => \A b \in Candidates :
        (~SelectedByFilter(b) /\ ~ContainsChangedFile(b) /\ DependsOnPublicChange(b)) =>
            /\ b \in DOMAIN ret.value
            /\ ret.value[b].policy = 3
            /\ ret.value[b].on \in PublicSurfaceChanged
            /\ _does_pkg_depend_on_package(b, ret.value[b].on)

C5_Witness ==
    /\ Returned
    /\ PublicSurfaceChanged = {PkgA} /\ PkgA \notin Candidates
    /\ \E b, c \in Candidates :
           /\ b # c
           /\ ~SelectedByFilter(b) /\ ~ContainsChangedFile(b)
           /\ ~SelectedByFilter(c) /\ ~ContainsChangedFile(c)
           /\ ret.value[b] = Policy3Reason(PkgA) /\ ret.value[c] = Policy3Reason(PkgA)

\* C6 (as stated): a run of get_packages_to_build on a new resolver that
\* repeats the files, candidates and filter result of a run that also began
\* with an empty cache returns the same mapping.
C6_SameInputsSameMapping ==
    (Returned /\ prev.set /\ fresh) => ret = prev.ret

\* the containing-package lookup of path fails
LookupFails(path) == GetContainingPackage(path) = LookupFailed

\* C7: a changed file whose package lookup fails only moves the loop to the
\* next file: nothing of the call's state changes in Policy 2, and nothing of
\* the public-change list or the cache in the Policy 3 scan; the call is left
\* by an exception only from Policy 1.
C7_LookupFailureAbsorbed ==
    [][ /\ (pc \in {"policy2", "policy3_scan"} /\ idx <= Len(files) /\ LookupFails(files[idx])) =>
            /\ pc' = pc /\ idx' = idx + 1
            /\ UNCHANGED <<packages_to_build, remaining_packages, public_package_changes,
                           parsed_dec_cache, files, possible_packages>>
        /\ pc' = "raised" => pc = "policy1"
      ]_vars

C7_Witness ==
    /\ Returned
    /\ Len(files) = 2 /\ LookupFails(files[1]) /\ ~LookupFails(files[2])
    /\ \E p \in DOMAIN ret.value : ret.value[p] = Policy2Reason
    /\ \E p \in DOMAIN ret.value : ret.value[p].policy = 3

\* C8: in the returned mapping no candidate is present that the filter did
\* not return, that contains no changed file and that does not depend on a
\* package whose public surface changed.
C8_Minimality ==
    Returned => \A p \in Candidates :
        (~SelectedByFilter(p) /\ ~ContainsChangedFile(p) /\ ~DependsOnPublicChange(p))
            => p \notin DOMAIN ret.value

\* PkgD depends on PkgB only, PkgB depends on PkgA, only PkgA's public surface changed
C8_Witness ==
    /\ Returned
    /\ PkgD \in Candidates /\ PkgD \notin DOMAIN ret.value
    /\ PublicSurfaceChanged = {PkgA}
    /\ _does_pkg_depend_on_package(PkgD, PkgB) /\ _does_pkg_depend_on_package(PkgB, PkgA)
    /\ ~_does_pkg_depend_on_package(PkgD, PkgA)

\* filepath is the manifest file that dec was parsed from
IsManifestOf(filepath, dec) == GetEdk2RelativePathFromAbsolutePath(filepath) = dec.path

\* C9 (as stated): _is_public_file(f) is true exactly when f's package
\* resolves, the package has a manifest, and f's path contains
\* <package>/<declared include dir>/ or f is the package's manifest file.
C9_PublicExactly ==
    is_public.called =>
        LET f == is_public.filepath
            pkg == GetContainingPackage(f)
        IN  is_public.ret <=>
              /\ pkg # LookupFailed
              /\ pkg \in DOMAIN parsed_dec_cache
              /\ parsed_dec_cache[pkg].found
              /\ \/ \E inc \in Range(parsed_dec_cache[pkg].IncludePaths) :
                        Contains(ReplaceBackslash(f), pkg \o <<"/">> \o inc \o <<"/">>)
                 \/ IsManifestOf(f, parsed_dec_cache[pkg])

\* C10: within one resolver _parse_dec_for_package runs at most once per
\* package, and a step that does not build a new resolver keeps every cache
\* entry as it is (the None entry too).
C10_ParsedOnce ==
    [][ /\ \A p \in Packages : parse_calls'[p] <= 1
        /\ ~(NewResolver \/ RunAgain) =>
               \A p \in DOMAIN parsed_dec_cache :
                   p \in DOMAIN parsed_dec_cache' /\ parsed_dec_cache'[p] = parsed_dec_cache[p]
      ]_vars

\* a call that began with PkgC's None entry in the cache has classified a
\* file of PkgC without parsing again
C10_Witness ==
    /\ pc = "policy3_scan" /\ ~fresh
    /\ DOMAIN parsed_dec_cache = {PkgC} /\ parsed_dec_cache[PkgC] = NoneDec
    /\ is_public.called /\ GetContainingPackage(is_public.filepath) = PkgC
    /\ parse_calls[PkgC] = 1
====
